---- MODULE Spec2Model ----
(***************************************************************************)
(* Model of the Oracle Cloud Object Storage artifact driver                *)
(* (workflow/artifacts/oraclecloud/oraclecloud.go).                        *)
(*                                                                         *)
(* Strings are sequences of one-character strings, so that                 *)
(* strings.HasPrefix, strings.TrimPrefix, path.Join and path.Clean are     *)
(* computed the way the Go library computes them.  The object storage      *)
(* service and the local file system are the environment of the driver;    *)
(* every request to them can fail.                                         *)
(***************************************************************************)
EXTENDS Naturals, Sequences, FiniteSets, TLC

(***************************************************************************)
(* Strings                                                                 *)
(***************************************************************************)

\* byte value of the characters that occur in the model (ASCII)
CharOrd(c) ==
  CASE c = "." -> 46
    [] c = "/" -> 47
    [] c = "a" -> 97
    [] c = "b" -> 98
    [] c = "c" -> 99
    [] c = "e" -> 101
    [] c = "k" -> 107
    [] c = "s" -> 115
    [] c = "w" -> 119
    [] c = "x" -> 120
    [] c = "z" -> 122

\* strings.HasPrefix
HasPrefix(s, prefix) ==
  Len(prefix) <= Len(s) /\ SubSeq(s, 1, Len(prefix)) = prefix

\* strings.HasSuffix
HasSuffix(s, suffix) ==
  Len(suffix) <= Len(s) /\ SubSeq(s, Len(s) - Len(suffix) + 1, Len(s)) = suffix

\* strings.TrimPrefix
TrimPrefix(s, prefix) ==
  IF HasPrefix(s, prefix) THEN SubSeq(s, Len(prefix) + 1, Len(s)) ELSE s

\* byte-wise lexicographic order of two strings (the order of object names
\* in a listing)
RECURSIVE StrLess(_, _)
StrLess(s, t) ==
  IF t = <<>> THEN FALSE
  ELSE IF s = <<>> THEN TRUE
  ELSE IF s[1] = t[1] THEN StrLess(Tail(s), Tail(t))
  ELSE CharOrd(s[1]) < CharOrd(t[1])

\* the elements of a path, split at every "/"
RECURSIVE SplitFrom(_, _)
SplitFrom(s, cur) ==
  IF s = <<>> THEN <<cur>>
  ELSE IF s[1] = "/" THEN <<cur>> \o SplitFrom(Tail(s), <<>>)
  ELSE SplitFrom(Tail(s), Append(cur, s[1]))

Split(s) == SplitFrom(s, <<>>)

RECURSIVE JoinSegs(_)
JoinSegs(segs) ==
  IF segs = <<>> THEN <<>>
  ELSE IF Len(segs) = 1 THEN segs[1]
  ELSE segs[1] \o <<"/">> \o JoinSegs(Tail(segs))

Dot == <<".">>
DotDot == <<".", ".">>

\* path.Clean on the elements: drop empty and "." elements, resolve ".."
RECURSIVE CleanSegs(_, _, _)
CleanSegs(segs, acc, rooted) ==
  IF segs = <<>> THEN acc
  ELSE LET h == Head(segs) IN
    IF h = <<>> \/ h = Dot THEN CleanSegs(Tail(segs), acc, rooted)
    ELSE IF h = DotDot THEN
      IF acc # <<>> /\ acc[Len(acc)] # DotDot
        THEN CleanSegs(Tail(segs), SubSeq(acc, 1, Len(acc) - 1), rooted)
      ELSE IF rooted THEN CleanSegs(Tail(segs), acc, rooted)
      ELSE CleanSegs(Tail(segs), Append(acc, DotDot), rooted)
    ELSE CleanSegs(Tail(segs), Append(acc, h), rooted)

\* path.Clean
Clean(s) ==
  LET rooted == s # <<>> /\ s[1] = "/"
      body == JoinSegs(CleanSegs(Split(s), <<>>, rooted))
  IN IF rooted THEN <<"/">> \o body
     ELSE IF body = <<>> THEN Dot ELSE body

\* path.Join of two elements
Join(a, b) ==
  IF a = <<>> /\ b = <<>> THEN <<>>
  ELSE IF a = <<>> THEN Clean(b)
  ELSE Clean(a \o <<"/">> \o b)

\* index of the last "/" of s, 0 when there is none
RECURSIVE LastSlash(_, _)
LastSlash(s, i) ==
  IF i = 0 THEN 0 ELSE IF s[i] = "/" THEN i ELSE LastSlash(s, i - 1)

\* filepath.Dir
Dir(p) == Clean(SubSeq(p, 1, LastSlash(p, Len(p))))

\* a finite set of strings as the sequence in byte-wise lexicographic order
RECURSIVE SortNames(_)
SortNames(S) ==
  IF S = {} THEN <<>>
  ELSE LET m == CHOOSE x \in S : \A y \in S \ {x} : StrLess(x, y)
       IN <<m>> \o SortNames(S \ {m})

\* the elements of a sequence
Range(f) == { f[i] : i \in DOMAIN f }

\* order of two paths in a directory walk: element by element
RECURSIVE SegsLess(_, _)
SegsLess(a, b) ==
  IF b = <<>> THEN FALSE
  ELSE IF a = <<>> THEN TRUE
  ELSE IF a[1] = b[1] THEN SegsLess(Tail(a), Tail(b))
  ELSE StrLess(a[1], b[1])

RECURSIVE SortPaths(_)
SortPaths(S) ==
  IF S = {} THEN <<>>
  ELSE LET m == CHOOSE x \in S : \A y \in S \ {x} : SegsLess(Split(x), Split(y))
       IN <<m>> \o SortPaths(S \ {m})

Min(a, b) == IF a < b THEN a ELSE b

(***************************************************************************)
(* Bounds and the finite universe of inputs                                *)
(***************************************************************************)

\* largest number of objects in the bucket before the operation
MaxObjs == 3
\* largest number of objects the service returns in one page
MaxPageSize == 2
\* largest number of public operations invoked one after the other
MaxCalls == 1

sK == <<"k">>
sKSlash == <<"k", "/">>
sKa == <<"k", "/", "a">>
sKb == <<"k", "/", "b">>
sKs == <<"k", "/", "s">>
sKsc == <<"k", "/", "s", "/", "c">>
sKz == <<"k", "z">>
sW == <<"w">>
sWa == <<"w", "/", "a">>
sWs == <<"w", "/", "s">>
sWsc == <<"w", "/", "s", "/", "c">>
sX == <<"x">>
sZ == <<"z">>

\* artifact keys of the invocations
Keys == {sK, sKSlash, sKs}
\* object names a bucket can hold before the operation
ObjNames == {sK, sKa, sKb, sKsc, sKz}
\* local paths handed to Save
SavePaths == {sW, sWa, Dot, sZ}
\* local paths handed to Load
LoadPaths == {sX, sW}
\* the values of OracleAuthMode a driver can be configured with
AuthModes == {"WorkloadPrincipals", "InstancePrincipals", "Unsupported"}

\* configuration of the driver and the tenancy of the service
BucketName == "bucket"
Tenancy == "tenancy"

\* the local file system before the first operation: ./w/a and ./w/s/c
InitFs == [files |-> (sWa :> "hello") @@ (sWsc :> "bye"), dirs |-> {sW, sWs}]

\* the buckets of at most MaxObjs objects
InitBuckets ==
  { [n \in S |-> "old"] : S \in { T \in SUBSET ObjNames : Cardinality(T) <= MaxObjs } }

(***************************************************************************)
(* The object storage service (github.com/oracle/oci-go-sdk objectstorage) *)
(***************************************************************************)

\* ListObjects: the names with the prefix, strictly greater than StartAfter
\* when it is given, in lexicographic order, cut at the limit; NextStartWith
\* is the name the next page starts with (the value of the request's
\* inclusive "start" parameter), absent on the last page.  An optional
\* string is <<>> (nil) or <<s>>; limit 0 is an absent limit.
ServiceListObjects(b, size, prefix, startAfter, limit) ==
  LET match == { n \in DOMAIN b :
                   /\ HasPrefix(n, prefix)
                   /\ (startAfter = <<>> \/ StrLess(startAfter[1], n)) }
      sorted == SortNames(match)
      cap == IF limit = 0 THEN size ELSE Min(limit, size)
      n == Min(cap, Len(sorted))
  IN [Objects |-> SubSeq(sorted, 1, n),
      NextStartWith |-> IF Len(sorted) > n THEN <<sorted[n + 1]>> ELSE <<>>]

\* PutObject
ServicePut(b, name, content) ==
  [n \in DOMAIN b \cup {name} |-> IF n = name THEN content ELSE b[n]]

\* DeleteObject
ServiceDelete(b, name) == [n \in DOMAIN b \ {name} |-> b[n]]

(***************************************************************************)
(* The local file system (package os, path/filepath)                       *)
(***************************************************************************)

\* a path and the directories above it, "." excluded
RECURSIVE Ancestors(_)
Ancestors(d) ==
  IF d = Dot \/ d = <<"/">> THEN {} ELSE {d} \cup Ancestors(Dir(d))

\* os.MkdirAll: fails when the path or a directory above it is a file
MkdirAllFails(f, d) == \E a \in Ancestors(d) : a \in DOMAIN f.files

MkdirAll(f, d) == [f EXCEPT !.dirs = @ \cup Ancestors(d)]

\* os.Create: fails on a directory; creates or truncates the file
CreateFails(f, p) == p \in f.dirs \/ p = Dot

WriteFile(f, p, content) ==
  [f EXCEPT !.files =
     [q \in DOMAIN f.files \cup {p} |-> IF q = p THEN content ELSE f.files[q]]]

\* the files below directory d (d is clean)
FilesUnder(f, d) ==
  IF d = Dot THEN DOMAIN f.files
  ELSE { q \in DOMAIN f.files : HasPrefix(q, d \o <<"/">>) }

\* os.Lstat of the root of a walk succeeds
Exists(f, root) ==
  Clean(root) \in DOMAIN f.files \/ Clean(root) \in f.dirs \/ Clean(root) = Dot

\* filepath.Walk: the regular files the callback is called with, in walk
\* order; the root is passed as given, the paths below it are clean
WalkFiles(f, root) ==
  IF Clean(root) \in DOMAIN f.files THEN <<root>>
  ELSE SortPaths(FilesUnder(f, Clean(root)))

\* the files of the tree rooted at d, by their path relative to d
RelTree(f, d) ==
  LET c == Clean(d) IN
  IF c \in DOMAIN f.files
    THEN { <<Split(c)[Len(Split(c))], f.files[c]>> }
  ELSE { <<(IF c = Dot THEN q ELSE TrimPrefix(q, c \o <<"/">>)), f.files[q]>> :
           q \in FilesUnder(f, c) }

(***************************************************************************)
(* State                                                                   *)
(***************************************************************************)

VARIABLES
  bucket,    \* the objects of the bucket: name -> content
  fs,        \* the local file system: files (path -> content) and dirs
  authMode,  \* ArtifactDriver.AuthMode
  pageSize,  \* the page size of the service
  calls,     \* number of public operations invoked so far
  proc       \* per invocation: position in the code and local variables

vars == <<bucket, fs, authMode, pageSize, calls, proc>>

\* error values; code "nil" is no error; `at' is the call that failed
NoErr == [code |-> "nil", at |-> "", prefix |-> <<>>, bucket |-> "", namespace |-> ""]

Err(code, at) ==
  [code |-> code, at |-> at, prefix |-> <<>>, bucket |-> "", namespace |-> ""]

\* a not-found error whose message leaves the namespace out
NotFoundErrorNoNamespace(prefix, bucketName, namespace) ==
  [code |-> "NotFound", at |-> "loadDir", prefix |-> prefix,
   bucket |-> bucketName, namespace |-> ""]

\* errors.New(errors.CodeNotFound, fmt.Sprintf("no objects with prefix: %s
\* found in Oracle Object Storage bucket: %s, namespace: %s", ...))
NotFoundError(prefix, bucketName, namespace) ==
  [code |-> "NotFound", at |-> "loadDir", prefix |-> prefix,
   bucket |-> bucketName, namespace |-> namespace]

\* a request sent to the service, and whether the service answered without
\* an error
Request(op, ns, name, startAfter, limit, err) ==
  [op |-> op, ns |-> ns, name |-> name, startAfter |-> startAfter,
   limit |-> limit, ok |-> err.code = "nil"]

\* summary of the Save that ran before the Load of a round trip
NoPrev == [kind |-> "none", key |-> <<>>, path |-> <<>>, ok |-> FALSE,
           tree |-> {}, empty |-> FALSE, bucket |-> <<>>]

IdleProc ==
  [pc |-> "idle", kind |-> "none", key |-> <<>>, path |-> <<>>, ns |-> "",
   files |-> <<>>, next |-> <<>>, idx |-> 0, walk |-> <<>>, log |-> <<>>,
   err |-> NoErr, retList |-> <<>>, retBool |-> FALSE, retStream |-> "",
   streams |-> 0, handles |-> 0, bucket0 |-> <<>>, fs0 |-> InitFs, prev |-> NoPrev]

InitWith(P) ==
  /\ bucket \in InitBuckets
  /\ fs = InitFs
  /\ authMode \in AuthModes
  /\ pageSize \in 1..MaxPageSize
  /\ calls = 0
  /\ proc = [p \in P |-> [IdleProc EXCEPT !.bucket0 = bucket]]

Init == InitWith({1})

(***************************************************************************)
(* Public operations: entry                                                *)
(***************************************************************************)

\* what a later operation is told of the operation that has returned
Summary(me) ==
  [kind |-> me.kind, key |-> me.key, path |-> me.path,
   ok |-> me.err.code = "nil", tree |-> RelTree(me.fs0, me.path),
   empty |-> DOMAIN me.bucket0 = {}, bucket |-> me.bucket0]

\* the state of an invocation at entry
Begin(p, kind, key, localPath, prev) ==
  /\ proc[p].pc = "idle"
  /\ proc' = [proc EXCEPT ![p] =
       [IdleProc EXCEPT
          !.pc = "client", !.kind = kind, !.key = key, !.path = localPath,
          !.bucket0 = bucket, !.fs0 = fs,
          !.prev = prev]]
  /\ UNCHANGED <<bucket, fs, authMode, pageSize>>

\* a public operation is invoked
Enter(p, kind, key, localPath) ==
  /\ calls < MaxCalls
  /\ calls' = calls + 1
  /\ Begin(p, kind, key, localPath, NoPrev)

Load(p) == \E key \in Keys, localPath \in LoadPaths : Enter(p, "Load", key, localPath)

OpenStream(p) == \E key \in Keys : Enter(p, "OpenStream", key, <<>>)

Save(p) == \E key \in Keys, localPath \in SavePaths : Enter(p, "Save", key, localPath)

Delete(p) == \E key \in Keys : Enter(p, "Delete", key, <<>>)

ListObjects(p) == \E key \in Keys : Enter(p, "ListObjects", key, <<>>)

IsDirectory(p) == \E key \in Keys : Enter(p, "IsDirectory", key, <<>>)

\* `defer func() { file.Close() }()': the handle opened before it is closed
\* when the function returns, on every path
DeferredClose(handles) == handles - 1

\* the operation returns err
Return(p, st, err) ==
  proc' = [proc EXCEPT ![p] = [st EXCEPT !.pc = "idle", !.err = err]]

(***************************************************************************)
(* Client establishment and namespace resolution                           *)
(***************************************************************************)

\* newAuthProvider: the two supported modes have a provider constructor
SupportedAuthMode(mode) ==
  mode = "WorkloadPrincipals" \/ mode = "InstancePrincipals"

\* `if err != nil { return err }' after a call
Failed(err) == err.code # "nil"

\* Load that fetches the object named by the key before any listing
DispatchGetFirst(kind) ==
  CASE kind = "Load" -> "get"
    [] kind = "OpenStream" -> "get"
    [] kind = "Save" -> "walk"
    [] kind = "Delete" -> "list"
    [] kind = "ListObjects" -> "list"
    [] kind = "IsDirectory" -> "probe"

\* what each public operation does once client and namespace are there
Dispatch(kind) ==
  CASE kind = "Load" -> "list"
    [] kind = "OpenStream" -> "get"
    [] kind = "Save" -> "walk"
    [] kind = "Delete" -> "list"
    [] kind = "ListObjects" -> "list"
    [] kind = "IsDirectory" -> "probe"

\* newOracleCloudClient: provider selection, then client construction; the
\* provider constructor and the client constructor can fail
newOracleCloudClient(p) ==
  /\ proc[p].pc = "client"
  /\ \E e \in {NoErr, Err("Auth", "newOracleCloudClient")} :
       LET err == IF SupportedAuthMode(authMode) THEN e
                  ELSE Err("InvalidAuthMode", "newAuthProvider")
       IN IF Failed(err) THEN Return(p, proc[p], err)
          ELSE proc' = [proc EXCEPT ![p].pc = "namespace"]
  /\ UNCHANGED <<bucket, fs, authMode, pageSize, calls>>

\* a namespace error that is checked against an empty block
NamespaceFailedIgnored(err) == FALSE

\* the check of getNamespace's error in the public operations
NamespaceFailed(err) == Failed(err)

\* getNamespace: one GetNamespace request; "" and the error when it fails
getNamespace(p) ==
  /\ proc[p].pc = "namespace"
  /\ \E err \in {NoErr, Err("Transport", "getNamespace")} :
       LET ns == IF Failed(err) THEN "" ELSE Tenancy
           st == [proc[p] EXCEPT
                    !.ns = ns,
                    !.log = Append(@, Request("namespace", "", <<>>, <<>>, 0, err))]
       IN IF NamespaceFailed(err) THEN Return(p, st, err)
          ELSE proc' = [proc EXCEPT ![p] = [st EXCEPT !.pc = Dispatch(st.kind)]]
  /\ UNCHANGED <<bucket, fs, authMode, pageSize, calls>>

(***************************************************************************)
(* Listing                                                                 *)
(***************************************************************************)

\* a loop that drops the token of the response
NextStartsWithDropped(resp) == <<>>

\* the StartAfter of the next request: the NextStartWith of the response
NextStartsWith(resp) == resp.NextStartWith

\* loadDir: `if len(objs) < 1' returns the not-found error
NoObjects(objs) == Len(objs) < 1

\* the caller of listObjectsByPrefix goes on with the complete listing
AfterList(p, st) ==
  CASE st.kind = "ListObjects" ->
         Return(p, [st EXCEPT !.retList = st.files], NoErr)
    [] st.kind = "Delete" ->
         IF st.files = <<>> THEN Return(p, st, NoErr)
         ELSE proc' = [proc EXCEPT ![p] = [st EXCEPT !.pc = "delete", !.idx = 1]]
    [] st.kind = "Load" ->
         IF NoObjects(st.files)
           THEN Return(p, st, NotFoundError(st.key, BucketName, st.ns))
         ELSE proc' = [proc EXCEPT ![p] = [st EXCEPT !.pc = "load", !.idx = 1]]

\* a list request that names no prefix: it lists the whole bucket
ListPrefixNone(prefix) == <<>>

\* listObjectsByPrefix: the Prefix of every list request is the key
ListPrefix(prefix) == prefix

\* listObjectsByPrefix: one iteration of the page-follow loop
listObjectsByPrefix(p) ==
  /\ proc[p].pc = "list"
  /\ \E err \in {NoErr, Err("Transport", "ListObjects")},
        resp \in {ServiceListObjects(bucket, pageSize, ListPrefix(proc[p].key),
                                     proc[p].next, 0)} :
       LET me == proc[p]
           prefix == ListPrefix(me.key)
           st == [me EXCEPT
                    !.log = Append(@, Request("list", me.ns, prefix, me.next, 0, err))]
           got == [st EXCEPT !.files = @ \o resp.Objects,
                             !.next = NextStartsWith(resp)]
       IN IF Failed(err) THEN Return(p, st, err)
          ELSE IF got.next = <<>> THEN AfterList(p, got)
          ELSE proc' = [proc EXCEPT ![p] = got]
  /\ UNCHANGED <<bucket, fs, authMode, pageSize, calls>>

\* a prefix that is not normalised
DirPrefixRaw(key) == key

\* IsDirectory: the prefix normalised to end in "/"
DirPrefix(key) == IF ~HasSuffix(key, <<"/">>) THEN key \o <<"/">> ELSE key

\* IsDirectory: one list request with Limit 1
IsDirectoryList(p) ==
  /\ proc[p].pc = "probe"
  /\ \E err \in {NoErr, Err("Transport", "ListObjects")} :
       LET me == proc[p]
           objPrefix == DirPrefix(me.key)
           st == [me EXCEPT
                    !.log = Append(@, Request("list", me.ns, objPrefix, <<>>, 1, err))]
           objs == ServiceListObjects(bucket, pageSize, objPrefix, <<>>, 1)
       IN IF Failed(err) THEN Return(p, st, err)
          ELSE Return(p, [st EXCEPT !.retBool = Len(objs.Objects) > 0], NoErr)
  /\ UNCHANGED <<bucket, fs, authMode, pageSize, calls>>

(***************************************************************************)
(* Delete                                                                  *)
(***************************************************************************)

\* a delete loop that goes on after a failed delete
DeleteFailedIgnored(err) == FALSE

\* deleteDirObj: `if err = ad.deleteObj(...); err != nil { return err }'
DeleteFailed(err) == Failed(err)

\* deleteObj for the next listed object, inside the loop of deleteDirObj
deleteObj(p) ==
  /\ proc[p].pc = "delete"
  /\ \E e \in {NoErr, Err("Transport", "DeleteObject")} :
       LET me == proc[p]
           obj == me.files[me.idx]
           err == IF Failed(e) THEN e
                  ELSE IF obj \notin DOMAIN bucket
                    THEN Err("ObjectNotFound", "DeleteObject")
                  ELSE NoErr
           st == [me EXCEPT
                    !.log = Append(@, Request("delete", me.ns, obj, <<>>, 0, err))]
       IN /\ bucket' = IF Failed(err) THEN bucket ELSE ServiceDelete(bucket, obj)
          /\ IF DeleteFailed(err) THEN Return(p, st, err)
             ELSE IF me.idx = Len(me.files) THEN Return(p, st, NoErr)
             ELSE proc' = [proc EXCEPT ![p] = [st EXCEPT !.idx = @ + 1]]
  /\ UNCHANGED <<fs, authMode, pageSize, calls>>

(***************************************************************************)
(* Load                                                                    *)
(***************************************************************************)

\* loadDir: the local path of an object, the key removed from its name
LocalFilePath(localPath, obj, dirObjPrefix) ==
  Join(localPath, TrimPrefix(obj, dirObjPrefix))

\* GetObject: the error of the request, e being the injected failure
GetError(b, obj, e) ==
  IF Failed(e) THEN e
  ELSE IF obj \notin DOMAIN b THEN Err("ObjectNotFound", "GetObject")
  ELSE NoErr

\* loadFile for the next listed object, inside the loop of loadDir:
\* getObjectContent and then downloadObjectContent (MkdirAll, Create, Copy)
loadFile(p) ==
  /\ proc[p].pc = "load"
  /\ \E f \in {"ok", "get", "mkdir", "create", "copy"} :
       LET me == proc[p]
           obj == me.files[me.idx]
           fPath == LocalFilePath(me.path, obj, me.key)
           getErr == GetError(bucket, obj,
                       IF f = "get" THEN Err("Transport", "GetObject") ELSE NoErr)
           st == [me EXCEPT
                    !.log = Append(@, Request("get", me.ns, obj, <<>>, 0, getErr))]
           open == [st EXCEPT !.streams = @ + 1]
           written == [open EXCEPT !.handles = DeferredClose(@ + 1)]
           mkErr == IF f = "mkdir" THEN Err("IO", "MkdirAll")
                    ELSE IF MkdirAllFails(fs, Dir(fPath)) THEN Err("ENOTDIR", "MkdirAll")
                    ELSE NoErr
           fs1 == MkdirAll(fs, Dir(fPath))
           crErr == IF f = "create" THEN Err("IO", "Create")
                    ELSE IF CreateFails(fs1, fPath) THEN Err("EISDIR", "Create")
                    ELSE NoErr
       IN IF Failed(getErr) THEN Return(p, st, getErr) /\ fs' = fs
          ELSE IF Failed(mkErr) THEN Return(p, open, mkErr) /\ fs' = fs
          ELSE IF Failed(crErr) THEN Return(p, open, crErr) /\ fs' = fs1
          ELSE IF f = "copy"
            THEN Return(p, written, Err("IO", "Copy")) /\ fs' = WriteFile(fs1, fPath, "")
          ELSE /\ fs' = WriteFile(fs1, fPath, bucket[obj])
               /\ IF me.idx = Len(me.files) THEN Return(p, written, NoErr)
                  ELSE proc' = [proc EXCEPT ![p] = [written EXCEPT !.idx = @ + 1]]
  /\ UNCHANGED <<bucket, authMode, pageSize, calls>>

\* OpenStream: getObjectContent of the key; the stream goes to the caller
getObjectContent(p) ==
  /\ proc[p].pc = "get"
  /\ \E e \in {NoErr, Err("Transport", "GetObject")} :
       LET me == proc[p]
           err == GetError(bucket, me.key, e)
           st == [me EXCEPT
                    !.log = Append(@, Request("get", me.ns, me.key, <<>>, 0, err))]
       IN IF Failed(err) THEN Return(p, st, err)
          ELSE Return(p, [st EXCEPT !.retStream = bucket[me.key],
                                    !.streams = @ + 1], NoErr)
  /\ UNCHANGED <<bucket, fs, authMode, pageSize, calls>>

(***************************************************************************)
(* Save                                                                    *)
(***************************************************************************)

\* uploadDir: the object name of a file, the walk's path joined to the key
ObjectName(objBase, fPath) == Join(objBase, fPath)

\* a walk that goes on after a failed upload
UploadFailedIgnored(err) == FALSE

\* the walk function returns the error of uploadFile, which ends the walk
UploadFailed(err) == Failed(err)

\* uploadDir: filepath.Walk starts; an Lstat or ReadDir error is handed to
\* the walk function, which returns it
uploadDir(p) ==
  /\ proc[p].pc = "walk"
  /\ \E e \in {NoErr, Err("IO", "Walk")} :
       LET me == proc[p]
           err == IF ~Exists(fs, me.path) THEN Err("ENOENT", "Lstat") ELSE e
           files == WalkFiles(fs, me.path)
       IN IF Failed(err) THEN Return(p, me, err)
          ELSE IF files = <<>> THEN Return(p, me, NoErr)
          ELSE proc' = [proc EXCEPT ![p] =
                 [me EXCEPT !.pc = "upload", !.walk = files, !.idx = 1]]
  /\ UNCHANGED <<bucket, fs, authMode, pageSize, calls>>

\* one call of the walk function for the next regular file: the walk hands
\* it an Lstat or ReadDir error, or it calls uploadFile (os.Open, PutObject)
uploadFile(p) ==
  /\ proc[p].pc = "upload"
  /\ \E f \in {"ok", "walk", "open", "put"} :
       LET me == proc[p]
           fPath == me.walk[me.idx]
           objName == ObjectName(me.key, fPath)
           err == CASE f = "walk" -> Err("IO", "Walk")
                    [] f = "open" -> Err("IO", "Open")
                    [] f = "put" -> Err("Transport", "PutObject")
                    [] OTHER -> NoErr
           st == IF f \in {"ok", "put"}
                   THEN [me EXCEPT
                           !.handles = DeferredClose(@ + 1),
                           !.log = Append(@, Request("put", me.ns, objName, <<>>, 0, err))]
                 ELSE me
           stop == IF f = "walk" THEN Failed(err) ELSE UploadFailed(err)
       IN /\ bucket' = IF f = "ok"
                         THEN ServicePut(bucket, objName, fs.files[Clean(fPath)])
                       ELSE bucket
          /\ IF stop THEN Return(p, st, err)
             ELSE IF me.idx = Len(me.walk) THEN Return(p, st, NoErr)
             ELSE proc' = [proc EXCEPT ![p] = [st EXCEPT !.idx = @ + 1]]
  /\ UNCHANGED <<fs, authMode, pageSize, calls>>

(***************************************************************************)
(* Specification: one driver, operations invoked on arbitrary buckets      *)
(***************************************************************************)

Next ==
  \/ \E p \in DOMAIN proc : Load(p)
  \/ \E p \in DOMAIN proc : OpenStream(p)
  \/ \E p \in DOMAIN proc : Save(p)
  \/ \E p \in DOMAIN proc : Delete(p)
  \/ \E p \in DOMAIN proc : ListObjects(p)
  \/ \E p \in DOMAIN proc : IsDirectory(p)
  \/ \E p \in DOMAIN proc : newOracleCloudClient(p)
  \/ \E p \in DOMAIN proc : getNamespace(p)
  \/ \E p \in DOMAIN proc : listObjectsByPrefix(p)
  \/ \E p \in DOMAIN proc : IsDirectoryList(p)
  \/ \E p \in DOMAIN proc : deleteObj(p)
  \/ \E p \in DOMAIN proc : loadFile(p)
  \/ \E p \in DOMAIN proc : getObjectContent(p)
  \/ \E p \in DOMAIN proc : uploadDir(p)
  \/ \E p \in DOMAIN proc : uploadFile(p)

Spec == Init /\ [][Next]_vars

(***************************************************************************)
(* Specification of the round trip: Save of a local tree into an empty     *)
(* bucket, then Load of the same key into a fresh local path               *)
(***************************************************************************)

EmptyBucket == [n \in {} |-> "old"]

InitRT ==
  /\ bucket = EmptyBucket
  /\ fs = InitFs
  /\ authMode \in AuthModes
  /\ pageSize \in 1..MaxPageSize
  /\ calls = 0
  /\ proc = [p \in {1} |-> [IdleProc EXCEPT !.bucket0 = bucket]]

RoundTripSave(p) ==
  /\ proc[p].kind = "none"
  /\ \E key \in Keys, localPath \in SavePaths : Begin(p, "Save", key, localPath, NoPrev)
  /\ calls' = calls

RoundTripLoad(p) ==
  /\ proc[p].kind = "Save"
  /\ proc[p].err.code = "nil"
  /\ \E localPath \in LoadPaths :
       /\ ~Exists(fs, localPath)
       /\ Begin(p, "Load", proc[p].key, localPath, Summary(proc[p]))
  /\ calls' = calls

NextRT ==
  \/ \E p \in DOMAIN proc : RoundTripSave(p)
  \/ \E p \in DOMAIN proc : RoundTripLoad(p)
  \/ \E p \in DOMAIN proc : newOracleCloudClient(p)
  \/ \E p \in DOMAIN proc : getNamespace(p)
  \/ \E p \in DOMAIN proc : listObjectsByPrefix(p)
  \/ \E p \in DOMAIN proc : loadFile(p)
  \/ \E p \in DOMAIN proc : uploadDir(p)
  \/ \E p \in DOMAIN proc : uploadFile(p)

SpecRT == InitRT /\ [][NextRT]_vars

(***************************************************************************)
(* The operations run to completion, one at a time, with no failing        *)
(* request: what an operation returns and leaves behind when nothing else  *)
(* runs between its requests                                               *)
(***************************************************************************)

\* listObjectsByPrefix: the loop run to its end
RECURSIVE ListAll(_, _, _, _, _)
ListAll(b, size, prefix, next, acc) ==
  LET resp == ServiceListObjects(b, size, ListPrefix(prefix), next, 0)
      files == acc \o resp.Objects
      token == NextStartsWith(resp)
  IN IF token = <<>> THEN files ELSE ListAll(b, size, prefix, token, files)

\* the loop of loadDir from the i-th listed object on
RECURSIVE LoadAll(_, _, _, _, _, _)
LoadAll(b, f, files, i, key, localPath) ==
  IF i > Len(files) THEN [fs |-> f, err |-> NoErr]
  ELSE LET obj == files[i]
           fPath == LocalFilePath(localPath, obj, key)
           getErr == GetError(b, obj, NoErr)
           f1 == MkdirAll(f, Dir(fPath))
       IN IF Failed(getErr) THEN [fs |-> f, err |-> getErr]
          ELSE IF MkdirAllFails(f, Dir(fPath))
            THEN [fs |-> f, err |-> Err("ENOTDIR", "MkdirAll")]
          ELSE IF CreateFails(f1, fPath)
            THEN [fs |-> f1, err |-> Err("EISDIR", "Create")]
          ELSE LoadAll(b, WriteFile(f1, fPath, b[obj]), files, i + 1, key, localPath)

\* the walk of uploadDir from the i-th regular file on
RECURSIVE UploadAll(_, _, _, _, _)
UploadAll(b, f, walk, i, key) ==
  IF i > Len(walk) THEN b
  ELSE UploadAll(ServicePut(b, ObjectName(key, walk[i]), f.files[Clean(walk[i])]),
                 f, walk, i + 1, key)

\* the loop of deleteDirObj from the i-th listed object on
RECURSIVE DeleteAll(_, _, _)
DeleteAll(b, files, i) ==
  IF i > Len(files) THEN [bucket |-> b, err |-> NoErr]
  ELSE IF files[i] \notin DOMAIN b
    THEN [bucket |-> b, err |-> Err("ObjectNotFound", "DeleteObject")]
  ELSE DeleteAll(ServiceDelete(b, files[i]), files, i + 1)

\* what an operation returns
Result(err, retList, retBool, retStream) ==
  [err |-> err, retList |-> retList, retBool |-> retBool, retStream |-> retStream]

\* a public operation run alone on bucket b and local files f
RunOp(kind, key, localPath, b, f, size) ==
  LET same == [bucket |-> b, fs |-> f]
      files == ListAll(b, size, key, <<>>, <<>>)
  IN CASE kind = "Load" ->
            IF NoObjects(files)
              THEN same @@ [res |-> Result(NotFoundError(key, BucketName, Tenancy),
                                           <<>>, FALSE, "")]
            ELSE LET r == LoadAll(b, f, files, 1, key, localPath)
                 IN [bucket |-> b, fs |-> r.fs, res |-> Result(r.err, <<>>, FALSE, "")]
       [] kind = "OpenStream" ->
            LET err == GetError(b, key, NoErr)
            IN same @@ [res |-> Result(err, <<>>, FALSE,
                                       IF Failed(err) THEN "" ELSE b[key])]
       [] kind = "Save" ->
            IF ~Exists(f, localPath)
              THEN same @@ [res |-> Result(Err("ENOENT", "Lstat"), <<>>, FALSE, "")]
            ELSE [bucket |-> UploadAll(b, f, WalkFiles(f, localPath), 1, key),
                  fs |-> f, res |-> Result(NoErr, <<>>, FALSE, "")]
       [] kind = "Delete" ->
            LET r == DeleteAll(b, files, 1)
            IN [bucket |-> r.bucket, fs |-> f, res |-> Result(r.err, <<>>, FALSE, "")]
       [] kind = "ListObjects" ->
            same @@ [res |-> Result(NoErr, files, FALSE, "")]
       [] kind = "IsDirectory" ->
            same @@ [res |-> Result(NoErr, <<>>,
                       Len(ServiceListObjects(b, size, DirPrefix(key), <<>>, 1).Objects) > 0,
                       "")]

\* operation o1 run to completion, then operation o2: the final bucket and
\* what each returned
RunBoth(o1, o2, b, f, size) ==
  LET r1 == RunOp(o1.kind, o1.key, o1.path, b, f, size)
      r2 == RunOp(o2.kind, o2.key, o2.path, r1.bucket, r1.fs, size)
  IN [bucket |-> r2.bucket, first |-> r1.res, second |-> r2.res]

(***************************************************************************)
(* Specification of two concurrent invocations on one bucket: every        *)
(* interleaving of their requests                                          *)
(***************************************************************************)

\* the keys of the concurrent invocations
ConcKeys == {sKSlash, sKz}

\* neither key is a prefix of the other
Unrelated(k1, k2) == ~HasPrefix(k1, k2) /\ ~HasPrefix(k2, k1)

\* the objects the bucket can hold at first: all under one of the keys
ConcObjNames == {sKa, sKb, sKz}

InitConc == InitWith({1, 2}) /\ DOMAIN bucket \subseteq ConcObjNames

\* the local paths an operation of the kind can be invoked with
ConcSavePaths == {sW, sZ}

PathsOf(kind) ==
  IF kind = "Load" THEN LoadPaths ELSE IF kind = "Save" THEN ConcSavePaths ELSE {<<>>}

\* a public operation is invoked while the other invocation has not begun,
\* is running or has returned; its key is unrelated to the other's
Invoke(p) ==
  /\ proc[p].kind = "none"
  /\ \E kind \in {"Load", "OpenStream", "Save", "Delete", "ListObjects", "IsDirectory"},
        key \in ConcKeys :
       /\ \A q \in DOMAIN proc \ {p} :
            proc[q].kind # "none" => Unrelated(key, proc[q].key)
       /\ \E localPath \in PathsOf(kind) :
            Begin(p, kind, key, localPath, [NoPrev EXCEPT !.bucket = proc[p].bucket0])
  /\ calls' = calls

NextConc ==
  \/ \E p \in DOMAIN proc : Invoke(p)
  \/ \E p \in DOMAIN proc : newOracleCloudClient(p)
  \/ \E p \in DOMAIN proc : getNamespace(p)
  \/ \E p \in DOMAIN proc : listObjectsByPrefix(p)
  \/ \E p \in DOMAIN proc : IsDirectoryList(p)
  \/ \E p \in DOMAIN proc : deleteObj(p)
  \/ \E p \in DOMAIN proc : loadFile(p)
  \/ \E p \in DOMAIN proc : getObjectContent(p)
  \/ \E p \in DOMAIN proc : uploadDir(p)
  \/ \E p \in DOMAIN proc : uploadFile(p)

SpecConc == InitConc /\ [][NextConc]_vars

(***************************************************************************)
(* Specification of the running driver: the page-follow loop is a plain    *)
(* `for' loop of one goroutine, which goes on to its next iteration        *)
(* whenever the previous request has returned                              *)
(***************************************************************************)

\* ListObjects, Load or Delete is invoked, once
InvokeListing(p) ==
  /\ proc[p].kind = "none"
  /\ \E kind \in {"ListObjects", "Load", "Delete"}, key \in Keys :
       \E localPath \in (IF kind = "Load" THEN LoadPaths ELSE {<<>>}) :
         Begin(p, kind, key, localPath, NoPrev)
  /\ calls' = calls

NextFair ==
  \/ \E p \in DOMAIN proc : InvokeListing(p)
  \/ \E p \in DOMAIN proc : newOracleCloudClient(p)
  \/ \E p \in DOMAIN proc : getNamespace(p)
  \/ \E p \in DOMAIN proc : listObjectsByPrefix(p)
  \/ \E p \in DOMAIN proc : deleteObj(p)
  \/ \E p \in DOMAIN proc : loadFile(p)

SpecFair == Init /\ [][NextFair]_vars /\ WF_vars(listObjectsByPrefix(1))

(***************************************************************************)
(* Properties                                                              *)
(***************************************************************************)

Procs == DOMAIN proc

\* the operation of the given kind has returned
Returned(p, kind) == proc[p].pc = "idle" /\ proc[p].kind = kind

Succeeded(p) == proc[p].err.code = "nil"

\* the error is a failure of the environment (credentials, network, disk)
\* or of the configuration, not a result the driver computes from the bucket
EnvFault(err) == err.code \in {"Auth", "InvalidAuthMode", "Transport", "IO"}

IsData(r) == r.op # "namespace"
IsNamespace(r) == r.op = "namespace"
IsList(r) == r.op = "list"
IsGet(r) == r.op = "get"
IsPut(r) == r.op = "put"
IsDelete(r) == r.op = "delete"

\* the list, get, put and delete requests of the operation, in order
DataLog(p) == SelectSeq(proc[p].log, IsData)

NamesOf(reqs) == [i \in DOMAIN reqs |-> reqs[i].name]

\* the stored names that start with the key
Stored(b, key) ==
  { n \in DOMAIN b : Len(key) <= Len(n) /\ \A i \in 1..Len(key) : n[i] = key[i] }

\* C1: Save of a local tree D under key K into an empty bucket followed by
\* Load of K into a fresh path D' succeeds (when no request fails) and
\* leaves D' with the relative paths and contents of D.
RoundTripLaw ==
  \A p \in Procs :
    ( /\ Returned(p, "Load")
      /\ proc[p].prev.kind = "Save" /\ proc[p].prev.ok /\ proc[p].prev.empty
      /\ proc[p].prev.key = proc[p].key
      /\ ~Exists(proc[p].fs0, proc[p].path)
      /\ ~EnvFault(proc[p].err) )
    => /\ Succeeded(p)
       /\ RelTree(fs, proc[p].path) = proc[p].prev.tree

\* C2: a ListObjects that returns without error returns every stored name
\* that starts with the key exactly once, and no other name.
ListObjectsComplete ==
  \A p \in Procs :
    (Returned(p, "ListObjects") /\ Succeeded(p))
    => /\ Range(proc[p].retList) = Stored(bucket, proc[p].key)
       /\ Len(proc[p].retList) = Cardinality(Stored(bucket, proc[p].key))

LoadNotFound ==
  \A p \in Procs :
    (Returned(p, "Load") /\ Stored(proc[p].bucket0, proc[p].key) = {})
    => /\ fs = proc[p].fs0
       /\ ~Succeeded(p)
       /\ ~EnvFault(proc[p].err)
            => /\ proc[p].err.code = "NotFound"
               /\ proc[p].err.prefix = proc[p].key
               /\ proc[p].err.bucket = BucketName
               /\ proc[p].err.namespace = Tenancy

\* a Load returned not-found from a bucket that holds other objects
LoadNotFoundWitness ==
  \E p \in Procs :
    /\ Returned(p, "Load")
    /\ proc[p].err.code = "NotFound"
    /\ DOMAIN proc[p].bucket0 # {}
    /\ Stored(proc[p].bucket0, proc[p].key) = {}

\* C5: after a Delete that returns no error no stored name starts with the
\* key.
DeleteLeavesNothing ==
  \A p \in Procs :
    (Returned(p, "Delete") /\ Succeeded(p)) => Stored(bucket, proc[p].key) = {}

\* the delete requests of the operation, in order
Deletes(p) == SelectSeq(DataLog(p), IsDelete)

\* C6: when a delete request of Delete fails, Delete returns that error and
\* issues no further delete request; the objects deleted before it are gone,
\* one per earlier request, and every other object of the bucket is still
\* there with its content.
DeleteNonAtomic ==
  \A p \in Procs :
    proc[p].kind = "Delete"
    => \A i \in DOMAIN Deletes(p) :
         ~Deletes(p)[i].ok
         => LET gone == { Deletes(p)[j].name : j \in 1..(i - 1) } IN
            /\ i = Len(Deletes(p))
            /\ i <= Len(proc[p].files)
            /\ proc[p].pc = "idle"
            /\ proc[p].err = Err("Transport", "DeleteObject")
            /\ Cardinality(gone) = i - 1
            /\ gone \subseteq DOMAIN proc[p].bucket0
            /\ DOMAIN bucket = DOMAIN proc[p].bucket0 \ gone
            /\ \A n \in DOMAIN bucket : bucket[n] = proc[p].bucket0[n]

\* the second delete request of a Delete failed, with an object outside the
\* key in the bucket
DeleteNonAtomicWitness ==
  \E p \in Procs :
    /\ Returned(p, "Delete")
    /\ proc[p].err.at = "DeleteObject"
    /\ Len(Deletes(p)) = 2
    /\ Deletes(p)[1].name \notin DOMAIN bucket
    /\ Deletes(p)[2].name \in DOMAIN bucket
    /\ \E n \in DOMAIN bucket : n \notin Stored(bucket, proc[p].key)

\* C7: a Load that returns no error has written one local file per stored
\* object whose name starts with the key, at the local path joined with the
\* name without the key; distinct objects have distinct files, every file is
\* strictly below the local path, and no other file is written.
LoadMapsObjectsToFiles ==
  \A p \in Procs :
    (Returned(p, "Load") /\ Succeeded(p))
    => LET objs == Stored(proc[p].bucket0, proc[p].key)
           target(n) == Join(proc[p].path, TrimPrefix(n, proc[p].key))
           old == proc[p].fs0.files
       IN /\ \A n \in objs :
               /\ target(n) \in DOMAIN fs.files
               /\ fs.files[target(n)] = proc[p].bucket0[n]
               /\ HasPrefix(target(n), Clean(proc[p].path) \o <<"/">>)
          /\ \A m, n \in objs : m # n => target(m) # target(n)
          /\ \A q \in DOMAIN fs.files :
               (q \notin DOMAIN old \/ fs.files[q] # old[q])
               => \E n \in objs : q = target(n)

\* C8: an IsDirectory that returns no error returns TRUE exactly when a
\* stored name starts with the key made to end in "/", and has sent one
\* list request, for that prefix, with limit 1.
IsDirectoryIff ==
  \A p \in Procs :
    (Returned(p, "IsDirectory") /\ Succeeded(p))
    => LET key == proc[p].key
           norm == IF key # <<>> /\ key[Len(key)] = "/" THEN key
                   ELSE Append(key, "/")
       IN /\ proc[p].retBool = (Stored(bucket, norm) # {})
          /\ Len(DataLog(p)) = 1
          /\ DataLog(p)[1].op = "list"
          /\ DataLog(p)[1].name = norm
          /\ DataLog(p)[1].limit = 1
          /\ DataLog(p)[1].startAfter = <<>>

\* IsDirectory returned FALSE for a key that names an object
IsDirectoryIffWitness ==
  \E p \in Procs :
    /\ Returned(p, "IsDirectory")
    /\ Succeeded(p)
    /\ proc[p].key \in DOMAIN bucket
    /\ proc[p].retBool = FALSE

\* the put requests of the operation, in order
Puts(p) == SelectSeq(DataLog(p), IsPut)

\* the regular files of the tree rooted at the local path of the operation
RegularFiles(p) ==
  LET root == Clean(proc[p].path) IN
  { q \in DOMAIN proc[p].fs0.files :
      q = root \/ root = Dot \/ HasPrefix(q, root \o <<"/">>) }

\* C9: Save sends put requests only, at most one per regular file of the
\* walk and each for another object; after a failed open or put it returns
\* that error with no later put; the objects put before stay in the bucket
\* and nothing else changes; Save returns no error only when every regular
\* file was put.
SaveFailFast ==
  \A p \in Procs :
    proc[p].kind = "Save"
    => LET puts == Puts(p)
           done == { puts[i].name : i \in { j \in DOMAIN puts : puts[j].ok } }
       IN /\ DataLog(p) = puts
          /\ Len(puts) <= Cardinality(RegularFiles(p))
          /\ \A i, j \in DOMAIN puts : i # j => puts[i].name # puts[j].name
          /\ \A i \in DOMAIN puts :
               ~puts[i].ok => /\ i = Len(puts)
                              /\ proc[p].pc = "idle"
                              /\ proc[p].err = Err("Transport", "PutObject")
          /\ DOMAIN bucket = DOMAIN proc[p].bucket0 \cup done
          /\ \A n \in DOMAIN proc[p].bucket0 \ done : bucket[n] = proc[p].bucket0[n]
          /\ fs = proc[p].fs0
          /\ (proc[p].pc = "idle" /\ proc[p].err.at \in {"Open", "Walk"})
               => Cardinality(done) = Len(puts)
          /\ (proc[p].pc = "idle" /\ proc[p].err.at = "Open")
               => proc[p].idx = Len(puts) + 1
          /\ (proc[p].pc = "idle" /\ Succeeded(p))
               => Cardinality(done) = Cardinality(RegularFiles(p))

\* the put of the second file of a Save failed and the object of the first
\* file, new in the bucket, is still there
SaveFailFastWitness ==
  \E p \in Procs :
    /\ Returned(p, "Save")
    /\ proc[p].err.at = "PutObject"
    /\ Len(Puts(p)) = 2
    /\ Puts(p)[1].name \in DOMAIN bucket
    /\ Puts(p)[1].name \notin DOMAIN proc[p].bucket0

\* the GetNamespace requests of the operation
NamespaceLog(p) == SelectSeq(proc[p].log, IsNamespace)

\* C10: an operation whose client cannot be established (an auth mode other
\* than the two supported ones included) or whose namespace request fails
\* returns that error, sends no list, get, put or delete request and leaves
\* bucket and local files alone; every data request carries the resolved
\* namespace and follows the one, successful, namespace request.
EstablishFailureStops ==
  \A p \in Procs :
    LET me == proc[p]
        untouched == /\ DataLog(p) = <<>>
                     /\ fs = me.fs0
                     /\ bucket = me.bucket0
    IN /\ \A i \in DOMAIN DataLog(p) : DataLog(p)[i].ns = Tenancy
       /\ Len(NamespaceLog(p)) <= 1
       /\ DataLog(p) # <<>> => (me.log[1].op = "namespace" /\ me.log[1].ok)
       /\ \A i \in DOMAIN NamespaceLog(p) :
            ~NamespaceLog(p)[i].ok
            => /\ me.pc = "idle"
               /\ me.err = Err("Transport", "getNamespace")
               /\ untouched
       /\ (me.kind # "none" /\ me.pc # "client"
             /\ authMode \notin {"WorkloadPrincipals", "InstancePrincipals"})
            => /\ me.pc = "idle"
               /\ me.err.code = "InvalidAuthMode"
               /\ me.log = <<>>
               /\ untouched
       /\ (me.pc = "idle" /\ me.err.at = "newOracleCloudClient")
            => (me.log = <<>> /\ untouched)

\* a Delete of a key with stored objects returned the error of the
\* namespace request
EstablishFailureStopsWitness ==
  \E p \in Procs :
    /\ Returned(p, "Delete")
    /\ proc[p].err.at = "getNamespace"
    /\ Stored(bucket, proc[p].key) # {}

\* C11: when Load or Save has returned, with or without an error, every
\* local file handle it opened and every response content stream it obtained
\* is closed.
ResourcesReleased ==
  \A p \in Procs :
    (proc[p].pc = "idle" /\ proc[p].kind \in {"Load", "Save"})
    => (proc[p].handles = 0 /\ proc[p].streams = 0)


(***************************************************************************)
(* Two concurrent invocations                                              *)
(***************************************************************************)

OpOf(p) == [kind |-> proc[p].kind, key |-> proc[p].key, path |-> proc[p].path]

ResultOf(p) ==
  Result(proc[p].err, proc[p].retList, proc[p].retBool, proc[p].retStream)

\* both invocations have returned and no request or local call of theirs
\* was failed by the environment
BothReturned ==
  /\ Procs = {1, 2}
  /\ \A p \in Procs : /\ proc[p].pc = "idle"
                      /\ proc[p].kind # "none"
                      /\ ~EnvFault(proc[p].err)

\* the bucket before either invocation began
FirstBucket == proc[1].prev.bucket

\* what the interleaving gave: the final bucket and each operation's result
Outcome == [bucket |-> bucket, first |-> ResultOf(1), second |-> ResultOf(2)]

\* what the two orders of running one operation after the other give
OneAfterTheOther ==
  LET r12 == RunBoth(OpOf(1), OpOf(2), FirstBucket, InitFs, pageSize)
      r21 == RunBoth(OpOf(2), OpOf(1), FirstBucket, InitFs, pageSize)
  IN {r12, [bucket |-> r21.bucket, first |-> r21.second, second |-> r21.first]}

\* local path a is path b or lies under it
Within(a, b) ==
  \/ Clean(b) = Dot
  \/ Clean(a) = Clean(b)
  \/ HasPrefix(Clean(a), Clean(b) \o <<"/">>)

\* no operation writes local files that the other reads or writes: Load
\* writes under its path, Save reads under its path
LocalApart(o1, o2) ==
  ~ /\ {o1.kind, o2.kind} \subseteq {"Load", "Save"}
    /\ "Load" \in {o1.kind, o2.kind}
    /\ (Within(o1.path, o2.path) \/ Within(o2.path, o1.path))

\* the object names a Save makes of its key and the walked paths start with
\* the key: path.Join has removed no segment of either
NamesKept(o) ==
  o.kind = "Save" =>
    \A fPath \in Range(WalkFiles(InitFs, o.path)) :
      HasPrefix(ObjectName(o.key, fPath), o.key)

Lists(p) == proc[p].kind \in {"ListObjects", "Load", "Delete"}

\* the list requests of the operation, in order
ListLog(p) == SelectSeq(proc[p].log, IsList)

\* the continuation token of the response to the i-th list request
Token(p, i) ==
  ServiceListObjects(proc[p].bucket0, pageSize, proc[p].key,
                     ListLog(p)[i].startAfter, 0).NextStartWith

\* the requests of the page-follow loop follow the protocol
PaginationSafe ==
  \A p \in Procs :
    Lists(p) =>
      LET reqs == ListLog(p)
          n == Len(reqs)
      IN /\ n >= 1 => reqs[1].startAfter = <<>>
         /\ \A i \in 1..n : reqs[i].name = proc[p].key /\ reqs[i].limit = 0
         /\ \A i \in 2..n : /\ reqs[i - 1].ok
                            /\ Token(p, i - 1) # <<>>
                            /\ reqs[i].startAfter = Token(p, i - 1)
         /\ (n >= 1 /\ reqs[n].ok) => (Token(p, n) = <<>> <=> proc[p].pc # "list")
         /\ (n >= 1 /\ ~reqs[n].ok)
              => /\ proc[p].pc = "idle"
                 /\ proc[p].err = Err("Transport", "ListObjects")
                 /\ proc[p].retList = <<>>
                 /\ DataLog(p) = reqs

\* the page-follow loop, once entered, is left
ListTerminates == (proc[1].pc = "list") ~> (proc[1].pc # "list")

\* C13: the first list request carries no token; each later one carries the
\* token of the response before it and the same prefix; the loop stops at
\* the first response without a token; a failed list request ends the
\* operation at once with that error and no listing; and the loop terminates.
PaginationProtocol == []PaginationSafe /\ ListTerminates

\* a listing of two pages has returned: its second request carried the token
\* of the first response
PaginationProtocolWitness ==
  /\ Returned(1, "ListObjects") /\ Succeeded(1)
  /\ Len(ListLog(1)) = 2
  /\ ListLog(1)[2].startAfter # <<>>
  /\ ListLog(1)[2].startAfter = Token(1, 1)
====
